---- MODULE Spec2Model ----
(***************************************************************************)
(* Model of hefesto's process alerting core: the AlertEngine               *)
(* (hefesto-core/src/feature/procwatch/service/alert_engine.rs) together   *)
(* with the rule vocabulary of hefesto-domain/src/procwatch/alert_rule.rs. *)
(*                                                                         *)
(* Instants are natural numbers: clock quanta since the origin of the      *)
(* monotonic clock.  Durations are counted in the same quanta.  f64 metric *)
(* values and thresholds are integers.  An Option<T> is a set with at most *)
(* one element ({} is None, {v} is Some(v)).  A HashMap is a function      *)
(* whose DOMAIN is the set of keys present.                                *)
(***************************************************************************)
EXTENDS Integers, Sequences, FiniteSets, TLC

\* ------------------------------------------------------------------ bounds
\* Last clock reading explored.
MaxTime == 3
\* Longest pause between two calls of the engine, in clock quanta.
MaxStep == 2
\* Most quanta that pass between two clock readings inside one call.
MaxLag == 1

\* ------------------------------------------------------- metric vocabulary
MetricType == {"Cpu", "Rss", "Virtual", "Threads", "Fd", "ReadBytes", "WriteBytes"}
ComparisonOperator == {"Greater", "GreaterEq", "Less", "LessEq", "Equals", "NotEquals"}
ThresholdUnit == {"None", "Percent", "Bytes", "Kb", "Mb", "Gb"}
WindowCondition == {"For", "Increasing", "Decreasing"}

Abs(x) == IF x < 0 THEN -x ELSE x

\* The epsilon 0.001 of Equals / NotEquals, as the fraction EpsNum / EpsDen.
EpsNum == 1
EpsDen == 1000

\* ComparisonOperator::evaluate
OperatorEvaluate(op, value, threshold) ==
  CASE op = "Greater"   -> value > threshold
    [] op = "GreaterEq" -> value >= threshold
    [] op = "Less"      -> value < threshold
    [] op = "LessEq"    -> value <= threshold
    [] op = "Equals"    -> Abs(value - threshold) * EpsDen < EpsNum
    [] op = "NotEquals" -> Abs(value - threshold) * EpsDen >= EpsNum

\* ThresholdUnit::multiplier
Multiplier(unit) ==
  CASE unit \in {"None", "Percent", "Bytes"} -> 1
    [] unit = "Kb" -> 1024
    [] unit = "Mb" -> 1024 * 1024
    [] unit = "Gb" -> 1024 * 1024 * 1024

\* ThresholdUnit::to_bytes
ToBytes(unit, value) == value * Multiplier(unit)

\* AlertRule::extract_metric_value
ExtractMetricValue(rule, sample) ==
  CASE rule.metric = "Cpu"        -> sample.cpu
    [] rule.metric = "Rss"        -> sample.rss
    [] rule.metric = "Virtual"    -> sample.virt
    [] rule.metric = "Threads"    -> sample.threads
    [] rule.metric = "Fd"         -> sample.fd
    [] rule.metric = "ReadBytes"  -> sample.read
    [] rule.metric = "WriteBytes" -> sample.write

\* normalize_threshold converting by the unit whatever the metric.
NormalizeThresholdEveryMetric(rule) == ToBytes(rule.unit, rule.threshold)

\* AlertRule::normalize_threshold
NormalizeThreshold(rule) ==
  IF rule.metric \in {"Cpu", "Threads", "Fd"}
  THEN rule.threshold
  ELSE ToBytes(rule.unit, rule.threshold)

\* AlertRule::evaluate
RuleEvaluate(rule, sample) ==
  OperatorEvaluate(rule.operator, ExtractMetricValue(rule, sample), NormalizeThreshold(rule))

\* AlertRule::simple
SimpleRule(expr, metric, op, threshold, unit) ==
  [expression |-> expr, metric |-> metric, operator |-> op, threshold |-> threshold,
   unit |-> unit, window |-> {}, window_condition |-> {}]

\* AlertRule::windowed
WindowedRule(expr, metric, op, threshold, unit, window, condition) ==
  [expression |-> expr, metric |-> metric, operator |-> op, threshold |-> threshold,
   unit |-> unit, window |-> {window}, window_condition |-> {condition}]

\* ------------------------------------------------------------------ inputs
\* ProcessSample::minimal with the metric fields set by the sampler.
MakeSample(pid, cpu, rss, threads) ==
  [pid |-> pid, cpu |-> cpu, rss |-> rss, virt |-> 0, threads |-> threads,
   fd |-> 0, read |-> 0, write |-> 0]

Pids == {1, 2}

\* What the sampler returns: an idle and a busy process, per PID.
Idle(pid) == MakeSample(pid, 50, 1024, 4)
Busy(pid) == MakeSample(pid, 90, 3072, 8)

Samples == { Idle(p) : p \in Pids } \cup { Busy(p) : p \in Pids }

\* The samples of the one process that handle_pid_mode monitors.
SamplesOfOne == { Idle(1), Busy(1) }

RCpu      == SimpleRule("cpu>80%", "Cpu", "Greater", 80, "Percent")
RRss      == SimpleRule("rss>2KB", "Rss", "Greater", 2, "Kb")
RThreads  == SimpleRule("threads==4", "Threads", "Equals", 4, "None")
RCpuLe    == SimpleRule("cpu<=50%", "Cpu", "LessEq", 50, "Percent")
RFor2     == WindowedRule("cpu>80% for 2s", "Cpu", "Greater", 80, "Percent", 2, "For")
RFor0     == WindowedRule("cpu>80% for 0s", "Cpu", "Greater", 80, "Percent", 0, "For")
RInc      == WindowedRule("rss>1KB increasing 2s", "Rss", "Greater", 1, "Kb", 2, "Increasing")
RDec      == WindowedRule("rss>1KB decreasing 300s", "Rss", "Greater", 1, "Kb", 300, "Decreasing")
RInc0     == WindowedRule("rss>0B increasing 0s", "Rss", "Greater", 0, "Bytes", 0, "Increasing")
RDecNeg   == WindowedRule("rss>-1B decreasing 1s", "Rss", "Greater", -1, "Bytes", 1, "Decreasing")

\* The rules handed to evaluate_rule, and the rule lists handed to evaluate.
Rules == {RCpu, RFor2, RInc}

RuleLists ==
  { <<>>, <<RFor2>>, <<RCpu, RRss>>, <<RFor0, RInc>>, <<RDec, RThreads, RCpuLe>>,
    <<RInc0, RDecNeg>> }

\* The rules of a monitor of several processes.
RulesOfPids == {RFor2}

RuleListsOfPids == { <<RFor2, RInc>>, <<RCpu, RDecNeg>> }

\* AlertRule values built field by field (the fields are public), window and
\* window_condition each present or absent on its own: every metric with every
\* unit, every operator with every sign of threshold, and every shape of window.
AnyRulesByUnit ==
  [expression : {"any"}, metric : MetricType, operator : {"Greater"},
   threshold : {-1, 1}, unit : ThresholdUnit, window : {{}}, window_condition : {{}}]

AnyRulesByOperator ==
  [expression : {"any"}, metric : {"Cpu"}, operator : ComparisonOperator,
   threshold : {-1, 0, 80}, unit : {"Percent"}, window : {{}}, window_condition : {{}}]

AnyRulesByWindow ==
  [expression : {"any"}, metric : {"Cpu"}, operator : {"Greater"},
   threshold : {-1, 80}, unit : {"Percent"}, window : {{}, {0}, {2}},
   window_condition : {{}} \cup { {c} : c \in WindowCondition }]

AnyRulesByMetric == { rule \in AnyRulesByUnit : rule.unit = "Kb" /\ rule.threshold = -1 }

AnyRules == AnyRulesByMetric \cup AnyRulesByOperator \cup AnyRulesByWindow

\* A rule with a window and no window_condition, and one with a
\* window_condition and no window.
WindowOnly ==
  [expression |-> "any", metric |-> "Cpu", operator |-> "Greater", threshold |-> 80,
   unit |-> "Percent", window |-> {2}, window_condition |-> {}]

ConditionOnly ==
  [expression |-> "any", metric |-> "Cpu", operator |-> "Greater", threshold |-> 80,
   unit |-> "Percent", window |-> {}, window_condition |-> {"Increasing"}]

AnyRuleLists == { <<>>, <<WindowOnly, ConditionOnly>> }

\* Values given to AlertEngine::new and set_max_history_duration.
HistoryDurations == {0, 2}

\* -------------------------------------------------------------------- state
VARIABLES
  clock,                \* the latest reading of the monotonic clock
  sample_history,       \* AlertEngine.sample_history: pid -> queue of [sample, timestamp]
  trigger_start_times,  \* AlertEngine.trigger_start_times: <<pid, expression>> -> Instant
  max_history_duration, \* AlertEngine.max_history_duration
  results,              \* the Vec<AlertResult> returned by the latest call (<<>> if none)
  call,                 \* the latest call: operation and arguments
  evals,                \* per result of the latest call: what the evaluation saw
  obs_run,              \* <<pid, expression>> -> first true observation of the current run
  last_break,           \* <<pid, expression>> -> how the key's previous run ended (Break)
  twin,                 \* a second AlertEngine: [sample_history, trigger_start_times, results]
  parsed                \* what AlertParser::parse was given and returned (<<>> if not called)

vars == <<clock, sample_history, trigger_start_times, max_history_duration,
          results, call, evals, obs_run, last_break, twin, parsed>>

EmptyMap == [k \in {} |-> 0]

\* HashMap::remove / retain on a map held as a function.
Restrict(f, keys) == [k \in keys |-> f[k]]
MapRemove(f, k) == Restrict(f, DOMAIN f \ {k})
MapPut(f, k, v) == [x \in DOMAIN f \cup {k} |-> IF x = k THEN v ELSE f[x]]

\* ------------------------------------------------------------ engine code
\* Instant::checked_sub: None when the result would precede the clock's origin.
CheckedSub(now, d) == IF d <= now THEN {now - d} ELSE {}

\* Option::unwrap_or
UnwrapOr(opt, default) == IF opt = {} THEN default ELSE CHOOSE x \in opt : TRUE

\* The pruning loop of add_to_history: pop the front while it is older than cutoff.
RECURSIVE PruneFront(_, _)
PruneFront(history, cutoff) ==
  IF history # <<>> /\ Head(history).timestamp < cutoff
  THEN PruneFront(Tail(history), cutoff)
  ELSE history

\* add_to_history without its pruning loop.
AddToHistoryKeepsAll(hist, maxdur, sample, now) ==
  LET old    == IF sample.pid \in DOMAIN hist THEN hist[sample.pid] ELSE <<>>
      pushed == Append(old, [sample |-> sample, timestamp |-> now])
  IN  MapPut(hist, sample.pid, pushed)

\* add_to_history pruning the queue of every process at the cutoff.
AddToHistoryPrunesAll(hist, maxdur, sample, now) ==
  LET old    == IF sample.pid \in DOMAIN hist THEN hist[sample.pid] ELSE <<>>
      pushed == Append(old, [sample |-> sample, timestamp |-> now])
      cutoff == UnwrapOr(CheckedSub(now, maxdur), now)
      all    == MapPut(hist, sample.pid, pushed)
  IN  [pid \in DOMAIN all |-> PruneFront(all[pid], cutoff)]

\* AlertEngine::add_to_history, as the new value of sample_history.
AddToHistory(hist, maxdur, sample, now) ==
  LET old    == IF sample.pid \in DOMAIN hist THEN hist[sample.pid] ELSE <<>>
      pushed == Append(old, [sample |-> sample, timestamp |-> now])
      cutoff == UnwrapOr(CheckedSub(now, maxdur), now)
  IN  MapPut(hist, sample.pid, PruneFront(pushed, cutoff))

\* find_oldest_after returning the newest entry at or after the cutoff.
FindNewestAfter(history, cutoff) ==
  LET hits == { i \in 1..Len(history) : history[i].timestamp >= cutoff }
  IN  IF hits # {} THEN CHOOSE i \in hits : \A j \in hits : i >= j
      ELSE IF history # <<>> THEN 1 ELSE 0

\* find_oldest_after, as the index of the entry it returns (0 for None).
FindOldestAfter(history, cutoff) ==
  LET hits == { i \in 1..Len(history) : history[i].timestamp >= cutoff }
  IN  IF hits # {} THEN CHOOSE i \in hits : \A j \in hits : i <= j
      ELSE IF history # <<>> THEN 1 ELSE 0

\* AlertResult::triggered / AlertResult::ok
AlertResult(rule, triggered, current_value, sample) ==
  [rule |-> rule, triggered |-> triggered, current_value |-> current_value,
   threshold |-> NormalizeThreshold(rule), pid |-> sample.pid]

\* What one rule evaluation saw; recorded next to its result.
\*   kind: the branch of evaluate_rule taken; at: the clock when it ran;
\*   reads: how many times it read Instant::now(); now: its first reading, if any;
\*   met: rule.evaluate(sample); prior: the timer found for its key, if any;
\*   hist_len: the PID's queue length; baseline: the index find_oldest_after
\*   returned (0 if not called); cutoff: the cutoff handed to it, if any.
Seen(kind, at, reads, now, met, prior, hist_len, baseline, cutoff) ==
  [kind |-> kind, at |-> at, reads |-> reads, now |-> now, met |-> met, prior |-> prior,
   hist_len |-> hist_len, baseline |-> baseline, cutoff |-> cutoff]

RuleKey(sample, rule) == <<sample.pid, rule.expression>>

HistoryOf(hist, pid) == IF pid \in DOMAIN hist THEN hist[pid] ELSE <<>>

\* evaluate_rule taking a rule whose window_condition is absent for a simple rule.
BranchByCondition(rule) ==
  IF rule.window = {} \/ rule.window_condition = {} THEN "Simple"
  ELSE UnwrapOr(rule.window_condition, "For")

\* The branch of evaluate_rule a rule takes.
Branch(rule) ==
  IF rule.window = {} THEN "Simple"
  ELSE UnwrapOr(rule.window_condition, "For")

\* How a run of true observations of a key ended: when, by what ("false": a
\* false observation, "clear": clear_history or clear_all_history), and the
\* first true observation of the run it ended, if one was under way.
Break(at, by, run, key) ==
  [at |-> at, by |-> by, run |-> IF key \in DOMAIN run THEN {run[key]} ELSE {}]

\* The clock readings Instant::now() can return when the latest reading was clk.
Readings(clk) == { clk + lag : lag \in 0..MaxLag }

\* The engine state threaded through the rules of one call:
\*   timers (trigger_start_times), clk (the clock), res (results so far),
\*   seen (one Seen per result), run / brk (observation bookkeeping).
\* Each evaluation yields the set of states it can leave, one per clock reading.

\* EvaluateSimple comparing with the threshold as written, not normalized.
EvaluateSimpleRawThreshold(st, sample, rule) ==
  LET met == OperatorEvaluate(rule.operator, ExtractMetricValue(rule, sample), rule.threshold)
  IN  { [st EXCEPT
          !.res  = Append(@, AlertResult(rule, met, ExtractMetricValue(rule, sample), sample)),
          !.seen = Append(@, Seen("Simple", st.clk, 0, {}, met, {}, 0, 0, {}))] }

\* The simple branch of evaluate_rule.
EvaluateSimple(st, sample, rule) ==
  LET met == RuleEvaluate(rule, sample)
  IN  { [st EXCEPT
          !.res  = Append(@, AlertResult(rule, met, ExtractMetricValue(rule, sample), sample)),
          !.seen = Append(@, Seen("Simple", st.clk, 0, {}, met, {}, 0, 0, {}))] }

\* ForConditionMet with the window test off by one quantum: it triggers one
\* quantum before the window has elapsed.
ForConditionMetEarly(st, sample, rule, now) ==
  LET key     == RuleKey(sample, rule)
      window  == UnwrapOr(rule.window, 0)
      prior   == IF key \in DOMAIN st.timers THEN {st.timers[key]} ELSE {}
      start   == UnwrapOr(prior, now)
      elapsed == now - start
  IN  [st EXCEPT
        !.timers = MapPut(@, key, start),
        !.clk    = now,
        !.res    = Append(@, AlertResult(rule, elapsed + 1 >= window,
                                         ExtractMetricValue(rule, sample), sample)),
        !.seen   = Append(@, Seen("For", now, 1, {now}, TRUE, prior, 0, 0, {})),
        !.run    = IF key \in DOMAIN @ THEN @ ELSE MapPut(@, key, now)]

\* ForConditionMet restarting the timer at every true observation.
ForConditionMetRestarts(st, sample, rule, now) ==
  LET key     == RuleKey(sample, rule)
      window  == UnwrapOr(rule.window, 0)
      prior   == IF key \in DOMAIN st.timers THEN {st.timers[key]} ELSE {}
      elapsed == now - UnwrapOr(prior, now)
  IN  [st EXCEPT
        !.timers = MapPut(@, key, now),
        !.clk    = now,
        !.res    = Append(@, AlertResult(rule, elapsed >= window,
                                         ExtractMetricValue(rule, sample), sample)),
        !.seen   = Append(@, Seen("For", now, 1, {now}, TRUE, prior, 0, 0, {})),
        !.run    = IF key \in DOMAIN @ THEN @ ELSE MapPut(@, key, now)]

\* AlertEngine::evaluate_for_condition, from its Instant::now() on: the
\* condition is met and the clock reads now.
ForConditionMet(st, sample, rule, now) ==
  LET key     == RuleKey(sample, rule)
      window  == UnwrapOr(rule.window, 0)
      prior   == IF key \in DOMAIN st.timers THEN {st.timers[key]} ELSE {}
      start   == UnwrapOr(prior, now)
      elapsed == now - start
  IN  [st EXCEPT
        !.timers = MapPut(@, key, start),
        !.clk    = now,
        !.res    = Append(@, AlertResult(rule, elapsed >= window,
                                         ExtractMetricValue(rule, sample), sample)),
        !.seen   = Append(@, Seen("For", now, 1, {now}, TRUE, prior, 0, 0, {})),
        !.run    = IF key \in DOMAIN @ THEN @ ELSE MapPut(@, key, now)]

\* evaluate_for_condition leaving the timer in place when the condition breaks.
EvaluateForConditionKeepsTimer(st, sample, rule) ==
  LET key   == RuleKey(sample, rule)
      prior == IF key \in DOMAIN st.timers THEN {st.timers[key]} ELSE {}
  IN  IF ~RuleEvaluate(rule, sample)
      THEN { [st EXCEPT
               !.res    = Append(@, AlertResult(rule, FALSE,
                                                ExtractMetricValue(rule, sample), sample)),
               !.seen   = Append(@, Seen("For", st.clk, 0, {}, FALSE, prior, 0, 0, {})),
               !.run    = MapRemove(@, key),
               !.brk    = MapPut(@, key, Break(st.clk, "false", st.run, key))] }
      ELSE { ForConditionMet(st, sample, rule, now) : now \in Readings(st.clk) }

\* AlertEngine::evaluate_for_condition
EvaluateForCondition(st, sample, rule) ==
  LET key   == RuleKey(sample, rule)
      prior == IF key \in DOMAIN st.timers THEN {st.timers[key]} ELSE {}
  IN  IF ~RuleEvaluate(rule, sample)
      THEN { [st EXCEPT
               !.timers = MapRemove(@, key),
               !.res    = Append(@, AlertResult(rule, FALSE,
                                                ExtractMetricValue(rule, sample), sample)),
               !.seen   = Append(@, Seen("For", st.clk, 0, {}, FALSE, prior, 0, 0, {})),
               !.run    = MapRemove(@, key),
               !.brk    = MapPut(@, key, Break(st.clk, "false", st.run, key))] }
      ELSE { ForConditionMet(st, sample, rule, now) : now \in Readings(st.clk) }

\* DeltaConditionAt comparing the change with the threshold by the rule's
\* operator.
DeltaConditionAtByOperator(st, history, sample, rule, rising, now, cutoff, reads, latest) ==
  LET current   == ExtractMetricValue(rule, sample)
      idx       == FindOldestAfter(history, cutoff)
      old_value == ExtractMetricValue(rule, history[idx].sample)
      threshold == NormalizeThreshold(rule)
      delta     == IF rising THEN current - old_value ELSE old_value - current
      met       == OperatorEvaluate(rule.operator, delta, threshold)
  IN  [st EXCEPT
        !.clk  = latest,
        !.res  = Append(@, AlertResult(rule, met, current, sample)),
        !.seen = Append(@, Seen(IF rising THEN "Increasing" ELSE "Decreasing", now,
                                reads, {now}, met, {}, Len(history), idx, {cutoff}))]

\* evaluate_increasing_condition (rising TRUE) / evaluate_decreasing_condition
\* (rising FALSE) from the cutoff on: the clock read now and the cutoff is cutoff;
\* reads readings were taken, the last of them latest.
DeltaConditionAt(st, history, sample, rule, rising, now, cutoff, reads, latest) ==
  LET current   == ExtractMetricValue(rule, sample)
      idx       == FindOldestAfter(history, cutoff)
      old_value == ExtractMetricValue(rule, history[idx].sample)
      threshold == NormalizeThreshold(rule)
      delta     == IF rising THEN current - old_value ELSE old_value - current
  IN  [st EXCEPT
        !.clk  = latest,
        !.res  = Append(@, AlertResult(rule, delta >= threshold, current, sample)),
        !.seen = Append(@, Seen(IF rising THEN "Increasing" ELSE "Decreasing", now,
                                reads, {now},
                                delta >= threshold, {}, Len(history), idx, {cutoff}))]

\* EvaluateDeltaCondition asking for one history entry instead of two.
EvaluateDeltaConditionOneEntry(st, hist, sample, rule, rising) ==
  LET history == HistoryOf(hist, sample.pid)
      window  == UnwrapOr(rule.window, 0)
  IN  IF Len(history) < 1
      THEN { [st EXCEPT
               !.res  = Append(@, AlertResult(rule, FALSE,
                                              ExtractMetricValue(rule, sample), sample)),
               !.seen = Append(@, Seen(IF rising THEN "Increasing" ELSE "Decreasing",
                                       st.clk, 0, {}, FALSE, {}, Len(history), 0, {}))] }
      ELSE UNION { IF CheckedSub(now, window) # {}
                   THEN { DeltaConditionAt(st, history, sample, rule, rising, now,
                                           UnwrapOr(CheckedSub(now, window), now), 1, now) }
                   ELSE { DeltaConditionAt(st, history, sample, rule, rising, now,
                                           later, 2, later) : later \in Readings(now) }
                 : now \in Readings(st.clk) }

\* AlertEngine::evaluate_increasing_condition (rising TRUE) and
\* evaluate_decreasing_condition (rising FALSE).  The cutoff is
\* Instant::now().checked_sub(window), or a second Instant::now() when that is None.
EvaluateDeltaCondition(st, hist, sample, rule, rising) ==
  LET history == HistoryOf(hist, sample.pid)
      window  == UnwrapOr(rule.window, 0)
  IN  IF Len(history) < 2
      THEN { [st EXCEPT
               !.res  = Append(@, AlertResult(rule, FALSE,
                                              ExtractMetricValue(rule, sample), sample)),
               !.seen = Append(@, Seen(IF rising THEN "Increasing" ELSE "Decreasing",
                                       st.clk, 0, {}, FALSE, {}, Len(history), 0, {}))] }
      ELSE UNION { IF CheckedSub(now, window) # {}
                   THEN { DeltaConditionAt(st, history, sample, rule, rising, now,
                                           UnwrapOr(CheckedSub(now, window), now), 1, now) }
                   ELSE { DeltaConditionAt(st, history, sample, rule, rising, now,
                                           later, 2, later) : later \in Readings(now) }
                 : now \in Readings(st.clk) }

\* AlertEngine::evaluate_rule on the threaded state.
EvaluateRule(st, hist, sample, rule) ==
  CASE Branch(rule) = "Simple"     -> EvaluateSimple(st, sample, rule)
    [] Branch(rule) = "For"        -> EvaluateForCondition(st, sample, rule)
    [] Branch(rule) = "Increasing" -> EvaluateDeltaCondition(st, hist, sample, rule, TRUE)
    [] Branch(rule) = "Decreasing" -> EvaluateDeltaCondition(st, hist, sample, rule, FALSE)

\* MapRules walking the rules from the last to the first.
RECURSIVE MapRulesBackwards(_, _, _, _, _)
MapRulesBackwards(sts, hist, sample, rules, i) ==
  IF i > Len(rules) THEN sts
  ELSE MapRulesBackwards(
         UNION { EvaluateRule(st, hist, sample, rules[Len(rules) + 1 - i]) : st \in sts },
         hist, sample, rules, i + 1)

\* rules.iter().map(|rule| self.evaluate_rule(sample, rule)).collect(), from
\* rule i on, for every state in sts.
RECURSIVE MapRules(_, _, _, _, _)
MapRules(sts, hist, sample, rules, i) ==
  IF i > Len(rules) THEN sts
  ELSE MapRules(UNION { EvaluateRule(st, hist, sample, rules[i]) : st \in sts },
                hist, sample, rules, i + 1)

\* ------------------------------------------------------------------- parser
\* Text is a string; its characters are its substrings of length one.
Lowercase == "abcdefghijklmnopqrstuvwxyz"
Uppercase == "ABCDEFGHIJKLMNOPQRSTUVWXYZ"
Digits    == "0123456789"

Char(s, i) == SubSeq(s, i, i)
CharsOf(s) == { Char(s, i) : i \in 1..Len(s) }
IndexIn(s, c) == CHOOSE i \in 1..Len(s) : Char(s, i) = c

\* The character classes of RULE_PATTERN: \s, [\w%] and [\d.]
Spaces      == {" ", "\t"}
MetricChars == CharsOf(Lowercase) \cup CharsOf(Uppercase) \cup CharsOf(Digits) \cup {"_", "%"}
NumberChars == CharsOf(Digits) \cup {"."}

\* str::to_lowercase and str::to_uppercase
RECURSIVE ToLowercase(_)
ToLowercase(s) ==
  IF s = "" THEN ""
  ELSE (IF Char(s, 1) \in CharsOf(Uppercase)
        THEN Char(Lowercase, IndexIn(Uppercase, Char(s, 1)))
        ELSE Char(s, 1)) \o ToLowercase(SubSeq(s, 2, Len(s)))

RECURSIVE ToUppercase(_)
ToUppercase(s) ==
  IF s = "" THEN ""
  ELSE (IF Char(s, 1) \in CharsOf(Lowercase)
        THEN Char(Uppercase, IndexIn(Lowercase, Char(s, 1)))
        ELSE Char(s, 1)) \o ToUppercase(SubSeq(s, 2, Len(s)))

\* str::trim_start
RECURSIVE TrimStart(_)
TrimStart(s) ==
  IF s # "" /\ Char(s, 1) \in Spaces THEN TrimStart(SubSeq(s, 2, Len(s))) ELSE s

\* str::trim_end
RECURSIVE TrimEnd(_)
TrimEnd(s) ==
  IF s # "" /\ Char(s, Len(s)) \in Spaces THEN TrimEnd(SubSeq(s, 1, Len(s) - 1)) ELSE s

\* trim leaving the spaces at the end.
TrimStartOnly(s) == TrimStart(s)

\* str::trim
Trim(s) == TrimEnd(TrimStart(s))

\* A greedy class* of RULE_PATTERN from index i: the index after the run.
RECURSIVE SkipWhile(_, _, _)
SkipWhile(s, i, class) ==
  IF i <= Len(s) /\ Char(s, i) \in class THEN SkipWhile(s, i + 1, class) ELSE i

\* A literal of RULE_PATTERN at index i, under (?i).
StartsWith(s, i, token) ==
  /\ i + Len(token) - 1 <= Len(s)
  /\ ToLowercase(SubSeq(s, i, i + Len(token) - 1)) = token

\* The alternations of RULE_PATTERN, in the order the regex tries them.
OperatorTokens     == << ">=", "<=", ">", "<", "==", "!=" >>
UnitTokens         == << "%", "gb", "mb", "kb", "b" >>
ConditionTokens    == << "for", "increasing", "decreasing" >>
DurationUnitTokens == << "s", "m", "h" >>

\* The first of the alternatives that fit (hits: their indices), as a set of at
\* most one index.
FirstOf(hits) ==
  IF hits = {} THEN {} ELSE { CHOOSE k \in hits : \A j \in hits : k <= j }

NoMatch == [matched |-> FALSE]

\* RULE_PATTERN from its window clause on, the spaces before it skipped:
\*   (?:(for|increasing|decreasing)\s+([\d.]+)\s*(s|m|h))?\s*$
MatchWindow(s, i) ==
  LET cond  == FirstOf({ k \in 1..Len(ConditionTokens) : StartsWith(s, i, ConditionTokens[k]) })
      word  == IF cond = {} THEN "" ELSE ConditionTokens[CHOOSE k \in cond : TRUE]
      v0    == SkipWhile(s, i + Len(word), Spaces)
      v1    == SkipWhile(s, v0, NumberChars)
      u0    == SkipWhile(s, v1, Spaces)
      unit  == FirstOf({ k \in 1..Len(DurationUnitTokens) : StartsWith(s, u0, DurationUnitTokens[k]) })
  IN  IF i > Len(s)
      THEN [matched |-> TRUE, condition |-> {}, duration_value |-> {}, duration_unit |-> {}]
      ELSE IF /\ cond # {}
              /\ v0 > i + Len(word)
              /\ v1 > v0
              /\ unit # {}
              /\ SkipWhile(s, u0 + 1, Spaces) > Len(s)
      THEN [matched |-> TRUE,
            condition |-> {SubSeq(s, i, i + Len(word) - 1)},
            duration_value |-> {SubSeq(s, v0, v1 - 1)},
            duration_unit |-> {Char(s, u0)}]
      ELSE NoMatch

\* The groups from the threshold on, given where the threshold (t0 to t1) and
\* what follows it (u0) begin, the unit alternative taken (none: {}) and the
\* match of the window clause after it.
ThresholdGroups(s, t0, t1, u0, unit, tail) ==
  IF t1 > t0 /\ tail.matched
  THEN [matched |-> TRUE,
        threshold |-> SubSeq(s, t0, t1 - 1),
        unit |-> { SubSeq(s, u0, u0 + Len(UnitTokens[k]) - 1) : k \in unit },
        condition |-> tail.condition,
        duration_value |-> tail.duration_value,
        duration_unit |-> tail.duration_unit]
  ELSE NoMatch

\* RULE_PATTERN from its threshold on:  \s*([\d.]+)\s*(%|GB|MB|KB|B)?\s* and the
\* window clause.  The unit is tried first, then its absence.
MatchThreshold(s, i) ==
  LET t0       == SkipWhile(s, i, Spaces)
      t1       == SkipWhile(s, t0, NumberChars)
      u0       == SkipWhile(s, t1, Spaces)
      After(k) == MatchWindow(s, SkipWhile(s, u0 + Len(UnitTokens[k]), Spaces))
      unit     == FirstOf({ k \in 1..Len(UnitTokens) :
                              StartsWith(s, u0, UnitTokens[k]) /\ After(k).matched })
  IN  ThresholdGroups(s, t0, t1, u0, unit,
                      IF unit # {} THEN After(CHOOSE k \in unit : TRUE)
                      ELSE MatchWindow(s, u0))

\* All the groups, given where the metric (m0 to m1) and the operator (o0)
\* begin, the operator alternative taken (none: {}) and the match after it.
AllGroups(s, m0, m1, o0, op, rest) ==
  IF m1 > m0 /\ op # {}
  THEN [matched |-> TRUE,
        metric |-> SubSeq(s, m0, m1 - 1),
        operator |-> SubSeq(s, o0, o0 + Len(OperatorTokens[CHOOSE k \in op : TRUE]) - 1),
        threshold |-> rest.threshold,
        unit |-> rest.unit,
        condition |-> rest.condition,
        duration_value |-> rest.duration_value,
        duration_unit |-> rest.duration_unit]
  ELSE NoMatch

\* RULE_PATTERN.captures: the groups of the match, or NoMatch.
\*   ^\s*([\w%]+)\s*(>=|<=|>|<|==|!=) and the rest
Captures(s) ==
  LET m0       == SkipWhile(s, 1, Spaces)
      m1       == SkipWhile(s, m0, MetricChars)
      o0       == SkipWhile(s, m1, Spaces)
      After(k) == MatchThreshold(s, o0 + Len(OperatorTokens[k]))
      op       == FirstOf({ k \in 1..Len(OperatorTokens) :
                              StartsWith(s, o0, OperatorTokens[k]) /\ After(k).matched })
  IN  AllGroups(s, m0, m1, o0, op,
                IF op # {} THEN After(CHOOSE k \in op : TRUE) ELSE NoMatch)

\* MetricType::parse (the parser's MetricType::from_str)
MetricTypeParse(s) ==
  LET word == ToLowercase(s)
  IN  CASE word \in {"cpu", "cpu%"}             -> {"Cpu"}
        [] word \in {"rss", "mem", "memory"}    -> {"Rss"}
        [] word \in {"virtual", "vsz", "virt"}  -> {"Virtual"}
        [] word \in {"threads", "thread"}       -> {"Threads"}
        [] word \in {"fd", "fds", "files"}      -> {"Fd"}
        [] word \in {"read", "read_bytes"}      -> {"ReadBytes"}
        [] word \in {"write", "write_bytes"}    -> {"WriteBytes"}
        [] OTHER                                -> {}

\* ComparisonOperator::parse (the parser's ComparisonOperator::from_str)
ComparisonOperatorParse(s) ==
  CASE s = ">"             -> {"Greater"}
    [] s = ">="            -> {"GreaterEq"}
    [] s = "<"             -> {"Less"}
    [] s = "<="            -> {"LessEq"}
    [] s \in {"==", "="}   -> {"Equals"}
    [] s \in {"!=", "<>"}  -> {"NotEquals"}
    [] OTHER               -> {}

\* ThresholdUnit::parse (the parser's ThresholdUnit::from_str)
ThresholdUnitParse(s) ==
  LET word == ToUppercase(s)
  IN  IF s = "" THEN "None"
      ELSE CASE word = "%"              -> "Percent"
             [] word \in {"B", "BYTES"} -> "Bytes"
             [] word \in {"K", "KB"}    -> "Kb"
             [] word \in {"M", "MB"}    -> "Mb"
             [] word \in {"G", "GB"}    -> "Gb"
             [] OTHER                   -> "None"

\* WindowCondition::parse (the parser's WindowCondition::from_str)
WindowConditionParse(s) ==
  LET word == ToLowercase(s)
  IN  CASE word = "for"        -> {"For"}
        [] word = "increasing" -> {"Increasing"}
        [] word = "decreasing" -> {"Decreasing"}
        [] OTHER               -> {}

\* The number a run of decimal digits writes.
RECURSIVE DigitsValue(_)
DigitsValue(s) ==
  IF s = "" THEN 0
  ELSE DigitsValue(SubSeq(s, 1, Len(s) - 1)) * 10 + (IndexIn(Digits, Char(s, Len(s))) - 1)

RECURSIVE PowerOfTen(_)
PowerOfTen(n) == IF n = 0 THEN 1 ELSE 10 * PowerOfTen(n - 1)

\* A decimal number num / den in lowest power of ten.
RECURSIVE Decimal(_, _)
Decimal(num, den) ==
  IF den > 1 /\ num % 10 = 0 THEN Decimal(num \div 10, den \div 10)
  ELSE [num |-> num, den |-> den]

\* str::parse::<f64> on text of digits and dots with an optional sign: the
\* number, or nothing when the text has no digit or more than one dot.
ParseFloat(s) ==
  LET signed == s # "" /\ Char(s, 1) \in {"-", "+"}
      body   == IF signed THEN SubSeq(s, 2, Len(s)) ELSE s
      dots   == { i \in 1..Len(body) : Char(body, i) = "." }
      dot    == IF dots = {} THEN Len(body) + 1 ELSE CHOOSE i \in dots : TRUE
      whole  == SubSeq(body, 1, dot - 1)
      frac   == SubSeq(body, dot + 1, Len(body))
      value  == Decimal(DigitsValue(whole \o frac), PowerOfTen(Len(frac)))
  IN  IF /\ CharsOf(body) \subseteq NumberChars
         /\ Cardinality(dots) <= 1
         /\ whole \o frac # ""
      THEN { IF signed /\ Char(s, 1) = "-" THEN [value EXCEPT !.num = 0 - @] ELSE value }
      ELSE {}

\* An f64 held in a rule: an integer when whole, as the engine's values are.
AsValue(number) == IF number.den = 1 THEN number.num ELSE number

\* parse_unit without the default of the metric.
ParseUnitNoDefault(unit_str, metric) ==
  IF unit_str # {} /\ unit_str # {""}
  THEN ThresholdUnitParse(CHOOSE u \in unit_str : TRUE)
  ELSE "None"

\* parse_unit
ParseUnit(unit_str, metric) ==
  IF unit_str # {} /\ unit_str # {""}
  THEN ThresholdUnitParse(CHOOSE u \in unit_str : TRUE)
  ELSE CASE metric = "Cpu" -> "Percent"
         [] metric \in {"Rss", "Virtual", "ReadBytes", "WriteBytes"} -> "Bytes"
         [] metric \in {"Threads", "Fd"} -> "None"

\* AlertParserError
Err(error, text) == [ok |-> FALSE, error |-> error, text |-> text]

\* (val * per) as u64: the whole seconds of val times per, the fraction dropped.
AsSecs(val, per) == IF val.num < 0 THEN 0 ELSE (val.num * per) \div val.den

\* parse_duration: Ok(Duration) or Err
ParseDuration(value_str, unit) ==
  LET val == ParseFloat(value_str)
      v   == CHOOSE x \in val : TRUE
      u   == ToLowercase(unit)
  IN  IF val = {} THEN Err("InvalidDuration", value_str)
      ELSE CASE u = "s" -> [ok |-> TRUE, duration |-> AsSecs(v, 1)]
             [] u = "m" -> [ok |-> TRUE, duration |-> AsSecs(v, 60)]
             [] u = "h" -> [ok |-> TRUE, duration |-> AsSecs(v, 3600)]
             [] OTHER   -> Err("UnknownDurationUnit", u)

\* The window of a rule, left out when it lasts no whole second.
RuleWindowIfPositive(windowed, duration) ==
  IF windowed /\ duration.duration > 0 THEN {duration.duration} ELSE {}

\* window = Some(parse_duration(..)?) inside the if let, None outside it.
RuleWindow(windowed, duration) ==
  IF windowed THEN {duration.duration} ELSE {}

\* AlertParser::parse from the captures on: the groups resolved one by one,
\* the first failure returned, else the rule.
ResolveGroups(text, caps) ==
  LET The(opt)  == CHOOSE x \in opt : TRUE
      metric    == MetricTypeParse(caps.metric)
      operator  == ComparisonOperatorParse(caps.operator)
      threshold == ParseFloat(caps.threshold)
      windowed  == caps.condition # {} /\ caps.duration_value # {} /\ caps.duration_unit # {}
      condition == WindowConditionParse(The(caps.condition))
      duration  == ParseDuration(The(caps.duration_value), The(caps.duration_unit))
  IN  IF ~caps.matched THEN Err("InvalidExpression", text)
      ELSE IF metric = {} THEN Err("UnknownMetric", caps.metric)
      ELSE IF operator = {} THEN Err("UnknownOperator", caps.operator)
      ELSE IF threshold = {} THEN Err("InvalidThreshold", caps.threshold)
      ELSE IF windowed /\ condition = {} THEN Err("UnknownCondition", The(caps.condition))
      ELSE IF windowed /\ ~duration.ok THEN duration
      ELSE [ok |-> TRUE,
            rule |-> [expression |-> text,
                      metric |-> The(metric),
                      operator |-> The(operator),
                      threshold |-> AsValue(The(threshold)),
                      unit |-> ParseUnit(caps.unit, The(metric)),
                      window |-> RuleWindow(windowed, duration),
                      window_condition |-> IF windowed THEN condition ELSE {}]]

\* The text of an expression resolved: empty, or matched against RULE_PATTERN.
ParseText(text) ==
  IF text = "" THEN Err("EmptyExpression", "") ELSE ResolveGroups(text, Captures(text))

\* AlertParser::parse: Ok(AlertRule) or Err(AlertParserError)
Parse(expression) == ParseText(Trim(expression))

\* The expressions handed to the parser: every metric word with every operator
\* token, threshold, unit suffix and window clause, and expressions of their own.
MetricWords    == {"cpu", "CPU%", "mem", "threads", "fds", "disk"}
OperatorWords  == {">", ">=", "<", "<=", "==", "!=", "=", "<>"}
ThresholdWords == {"80", "-1", "1.2.3"}
UnitWords      == {"", "%", "KB", "gb"}
WindowWords    == {"", " for 30s", " increasing 1.5m", " for 1.2.3s", " until 5s"}

Composed ==
  { m \o o \o t \o u \o w :
      m \in MetricWords, o \in OperatorWords, t \in ThresholdWords,
      u \in UnitWords, w \in WindowWords }

Written ==
  { "", "   ", " \t", "  cpu > 80 %  FOR  30 S ", "cpu>80%for 30s", "cpu>80 for30s", "cpu",
    ">80", "cpu>>80", " cpu 80 ", "rss>1.5GB", "rss>.", "threads>100 B", "read>5 for 0.5s",
    "virtual<=2048KB decreasing 2h", "write_bytes != 0b", "cpu > 80 %%", "cp u>80",
    "memory>=512MB increasing 5m", "cpu>80%\t" }

Expressions == Composed \cup Written

\* ------------------------------------------------------------------ actions
Call(op, pid, sample, rules) == [op |-> op, pid |-> pid, sample |-> sample, rules |-> rules]

Init ==
  /\ clock = 0
  /\ sample_history = EmptyMap
  /\ trigger_start_times = EmptyMap
  /\ max_history_duration \in HistoryDurations
  /\ results = <<>>
  /\ call = Call("new", 0, {}, <<>>)
  /\ evals = <<>>
  /\ obs_run = EmptyMap
  /\ last_break = EmptyMap
  /\ twin = [sample_history |-> EmptyMap, trigger_start_times |-> EmptyMap, results |-> <<>>]
  /\ parsed = <<>>

Thread(timers, clk) ==
  [timers |-> timers, clk |-> clk, res |-> <<>>, seen |-> <<>>,
   run |-> obs_run, brk |-> last_break]

\* What a call leaves behind: the threaded state st, and the call itself.
Returned(st, op, sample, rules) ==
  /\ clock' = st.clk
  /\ trigger_start_times' = st.timers
  /\ results' = st.res
  /\ evals' = st.seen
  /\ obs_run' = st.run
  /\ last_break' = st.brk
  /\ call' = Call(op, sample.pid, {sample}, rules)

\* evaluate mapping the rules before it records the sample.
EvaluateRulesFirst(sample, rules, now) ==
  \E hist \in {AddToHistory(sample_history, max_history_duration, sample, now)} :
  \E st \in MapRules({Thread(trigger_start_times, now)}, sample_history, sample, rules, 1) :
    /\ sample_history' = hist
    /\ Returned(st, "evaluate", sample, rules)
    /\ UNCHANGED max_history_duration

\* AlertEngine::evaluate, called when the clock reads now.
Evaluate(sample, rules, now) ==
  \E hist \in {AddToHistory(sample_history, max_history_duration, sample, now)} :
  \E st \in MapRules({Thread(trigger_start_times, now)}, hist, sample, rules, 1) :
    /\ sample_history' = hist
    /\ Returned(st, "evaluate", sample, rules)
    /\ UNCHANGED max_history_duration

\* evaluate_rule recording the sample before it evaluates, as evaluate does.
EvaluateRuleCallRecords(sample, rule, now) ==
  \E hist \in {AddToHistory(sample_history, max_history_duration, sample, now)} :
  \E st \in EvaluateRule(Thread(trigger_start_times, now), hist, sample, rule) :
    /\ sample_history' = hist
    /\ Returned(st, "evaluate_rule", sample, <<rule>>)
    /\ UNCHANGED max_history_duration

\* AlertEngine::evaluate_rule called directly when the clock reads now.
EvaluateRuleCall(sample, rule, now) ==
  \E st \in EvaluateRule(Thread(trigger_start_times, now), sample_history, sample, rule) :
    /\ Returned(st, "evaluate_rule", sample, <<rule>>)
    /\ UNCHANGED <<sample_history, max_history_duration>>

\* The runs of true observations that a clear of the keys in gone ends.
ClearRuns(gone) ==
  /\ obs_run' = Restrict(obs_run, DOMAIN obs_run \ gone)
  /\ last_break' = [k \in DOMAIN last_break \cup (DOMAIN obs_run \cap gone) |->
                      IF k \in DOMAIN obs_run \cap gone
                      THEN Break(clock, "clear", obs_run, k)
                      ELSE last_break[k]]

\* clear_history leaving the timers as they are.
RetainOtherPidsKeepsAll(timers, pid) == timers

\* clear_history dropping the timers of every process.
RetainOtherPidsDropsAll(timers, pid) == EmptyMap

\* trigger_start_times.retain(|key, _| key.pid != pid)
RetainOtherPids(timers, pid) ==
  Restrict(timers, { k \in DOMAIN timers : k[1] # pid })

\* AlertEngine::clear_history
ClearHistory(pid) ==
  /\ sample_history' = MapRemove(sample_history, pid)
  /\ trigger_start_times' = RetainOtherPids(trigger_start_times, pid)
  /\ ClearRuns({ k \in DOMAIN obs_run : k[1] = pid })
  /\ results' = <<>>
  /\ evals' = <<>>
  /\ call' = Call("clear_history", pid, {}, <<>>)
  /\ UNCHANGED <<clock, max_history_duration>>

\* clear_all_history clearing the queues and leaving the timers.
ClearAllHistoryKeepsTimers ==
  /\ sample_history' = EmptyMap
  /\ results' = <<>>
  /\ evals' = <<>>
  /\ call' = Call("clear_all_history", 0, {}, <<>>)
  /\ UNCHANGED <<clock, max_history_duration, trigger_start_times, obs_run, last_break>>

\* AlertEngine::clear_all_history
ClearAllHistory ==
  /\ sample_history' = EmptyMap
  /\ trigger_start_times' = EmptyMap
  /\ ClearRuns(DOMAIN obs_run)
  /\ results' = <<>>
  /\ evals' = <<>>
  /\ call' = Call("clear_all_history", 0, {}, <<>>)
  /\ UNCHANGED <<clock, max_history_duration>>

\* set_max_history_duration pruning every queue to the new duration at once.
SetMaxHistoryDurationPrunes(duration) ==
  /\ max_history_duration' = duration
  /\ sample_history' =
       [pid \in DOMAIN sample_history |->
          PruneFront(sample_history[pid], UnwrapOr(CheckedSub(clock, duration), clock))]
  /\ results' = <<>>
  /\ evals' = <<>>
  /\ call' = Call("set_max_history_duration", 0, {}, <<>>)
  /\ UNCHANGED <<clock, trigger_start_times, obs_run, last_break>>

\* set_max_history_duration dropping the timers along with the duration.
SetMaxHistoryDurationDropsTimers(duration) ==
  /\ max_history_duration' = duration
  /\ trigger_start_times' = EmptyMap
  /\ results' = <<>>
  /\ evals' = <<>>
  /\ call' = Call("set_max_history_duration", 0, {}, <<>>)
  /\ UNCHANGED <<clock, sample_history, obs_run, last_break>>

\* AlertEngine::set_max_history_duration
SetMaxHistoryDuration(duration) ==
  /\ max_history_duration' = duration
  /\ results' = <<>>
  /\ evals' = <<>>
  /\ call' = Call("set_max_history_duration", 0, {}, <<>>)
  /\ UNCHANGED <<clock, sample_history, trigger_start_times, obs_run, last_break>>

\* The instants at which the next call can come: later than the latest reading.
Later == { clock + step : step \in 1..MaxStep }

\* One call of the engine, with its arguments drawn from the given sets.
Step(samples, lists, rules) ==
  \/ \E sample \in samples, list \in lists, now \in Later :
       Evaluate(sample, list, now) /\ clock' <= MaxTime
  \/ \E sample \in samples, rule \in rules, now \in Later :
       EvaluateRuleCall(sample, rule, now) /\ clock' <= MaxTime
  \/ \E pid \in Pids : ClearHistory(pid)
  \/ ClearAllHistory
  \/ \E duration \in HistoryDurations : SetMaxHistoryDuration(duration)

\* One engine watching one process, as in handle_pid_mode.
Next == Step(SamplesOfOne, RuleLists, Rules) /\ UNCHANGED <<twin, parsed>>

Spec == Init /\ [][Next]_vars

\* One engine watching the processes that match a name, as in handle_name_mode.
NextPids == Step(Samples, RuleListsOfPids, RulesOfPids) /\ UNCHANGED <<twin, parsed>>

SpecPids == Init /\ [][NextPids]_vars

\* One engine given AlertRule values of every shape of window.
NextAny == Step(SamplesOfOne, AnyRuleLists, AnyRulesByWindow) /\ UNCHANGED <<twin, parsed>>

SpecAny == Init /\ [][NextAny]_vars

\* One engine given simple rules of every metric and unit.
NextUnits ==
  /\ \E sample \in SamplesOfOne, rule \in AnyRulesByUnit, now \in Later :
       EvaluateRuleCall(sample, rule, now) /\ clock' <= MaxTime
  /\ UNCHANGED <<twin, parsed>>

SpecUnits == Init /\ [][NextUnits]_vars

\* Values of max_history_duration up to one longer than the clock has run.
LongHistoryDurations == {0, 1, 300}

RuleListsOfAges == { <<>>, <<RInc>>, <<RFor2, RDecNeg>> }

\* One engine whose history duration is set to any of LongHistoryDurations
\* while it records the samples of one process.
NextAges ==
  /\ \/ \E sample \in SamplesOfOne, list \in RuleListsOfAges, now \in Later :
          Evaluate(sample, list, now) /\ clock' <= MaxTime
     \/ \E duration \in LongHistoryDurations : SetMaxHistoryDuration(duration)
  /\ UNCHANGED <<twin, parsed>>

SpecAges == Init /\ [][NextAges]_vars

\* AlertParser::parse called once on an expression; the parser keeps no state.
ParseCall(expression) ==
  /\ parsed = <<>>
  /\ parsed' = [expression |-> expression, result |-> Parse(expression)]
  /\ UNCHANGED <<clock, sample_history, trigger_start_times, max_history_duration,
                 results, call, evals, obs_run, last_break, twin>>

NextParse == \E expression \in Expressions : ParseCall(expression)

SpecParse == Init /\ [][NextParse]_vars

\* The second engine's evaluate of the call the first engine is making, at
\* the clock readings the first engine got.
TwinEvaluate(sample, rules, now) ==
  \E hist \in {AddToHistory(twin.sample_history, max_history_duration, sample, now)} :
  \E st \in MapRules({Thread(twin.trigger_start_times, now)}, hist, sample, rules, 1) :
    /\ st.clk = clock'
    /\ \A i \in 1..Len(rules) :
         /\ st.seen[i].at = evals'[i].at
         /\ st.seen[i].now = evals'[i].now
         /\ st.seen[i].cutoff = evals'[i].cutoff
    /\ twin' = [sample_history |-> hist, trigger_start_times |-> st.timers,
                results |-> st.res]

\* The second engine's clear_history.
TwinClearHistory(pid) ==
  twin' = [sample_history |-> MapRemove(twin.sample_history, pid),
           trigger_start_times |-> RetainOtherPids(twin.trigger_start_times, pid),
           results |-> <<>>]

\* The process both engines are called for, and the one only the first is.
PidA == 1
PidB == 2

\* A For rule whose window is one second.
RFor1 == WindowedRule("cpu>80% for 1s", "Cpu", "Greater", 80, "Percent", 1, "For")

\* One engine watching one process with the one For rule, at times next to a
\* simple rule or with no rule at all.
NextFor == Step(SamplesOfOne, { <<>>, <<RFor1>>, <<RCpu, RFor1>> }, {RFor1}) /\ UNCHANGED <<twin, parsed>>

SpecFor == Init /\ [][NextFor]_vars

\* The rules handed to evaluate_rule by a caller that keeps no history.
RulesOfDirect == {RFor2, RInc0, RDecNeg}

\* One engine whose caller hands the samples of PidA to evaluate_rule only,
\* and those of PidB to evaluate and to evaluate_rule.
NextDirect ==
  /\ \/ \E sample \in Samples, rule \in RulesOfDirect, now \in Later :
          EvaluateRuleCall(sample, rule, now) /\ clock' <= MaxTime
     \/ \E sample \in {Idle(PidB), Busy(PidB)}, now \in Later :
          Evaluate(sample, <<RInc0>>, now) /\ clock' <= MaxTime
     \/ \E pid \in Pids : ClearHistory(pid)
  /\ UNCHANGED <<twin, parsed>>

SpecDirect == Init /\ [][NextDirect]_vars

\* The alerts handle_pid_mode may be given: lists holding a For rule.
AlertLists == { <<RFor1>>, <<RFor2>>, <<RCpu, RFor2>>, <<RFor1, RFor2>> }

\* One iteration of handle_pid_mode's loop with count < 0: the process is
\* sampled and the sample evaluated against the alerts, the same list at every
\* iteration; the sleep that follows is the step to the next reading of the
\* clock.
MonitorIteration ==
  /\ \E sample \in SamplesOfOne, alerts \in AlertLists, now \in Later :
       /\ call.op = "new" \/ call.rules = alerts
       /\ Evaluate(sample, alerts, now)
       /\ clock' <= MaxTime
  /\ UNCHANGED <<twin, parsed>>

NextLive == MonitorIteration

\* The loop has no exit while the process lives, so an iteration that can be
\* taken is taken.
SpecLive == Init /\ [][NextLive]_vars /\ WF_vars(MonitorIteration)

\* Two engines built alike: every call for PidA goes to both, the calls for
\* PidB go to the first engine only.
NextPair ==
  \/ \E sample \in {Idle(PidA), Busy(PidA)}, list \in RuleListsOfPids, now \in Later :
       /\ Evaluate(sample, list, now) /\ clock' <= MaxTime /\ TwinEvaluate(sample, list, now)
       /\ UNCHANGED parsed
  \/ ClearHistory(PidA) /\ TwinClearHistory(PidA) /\ UNCHANGED parsed
  \/ \E sample \in {Idle(PidB), Busy(PidB)}, list \in RuleListsOfPids, now \in Later :
       Evaluate(sample, list, now) /\ clock' <= MaxTime /\ UNCHANGED <<twin, parsed>>
  \/ ClearHistory(PidB) /\ UNCHANGED <<twin, parsed>>

SpecPair == Init /\ [][NextPair]_vars

\* ------------------------------------------------------------------ claims
\* What the latest call returned, result by result.
Returns == 1..Len(results)
KeyOf(i) == <<results[i].pid, results[i].rule.expression>>
WindowOf(i) == UnwrapOr(results[i].rule.window, 0)
IsFor(i) == evals[i].kind = "For"
IsDelta(i) == evals[i].kind \in {"Increasing", "Decreasing"}

\* C1: when a For-windowed rule reports triggered at time t, a run of true
\* observations of its key is under way whose first observation was at or
\* before t - window, and no false observation and no clear of the key
\* happened at any time in [t - window, t].
C1_ForHeldForWindow ==
  \A i \in Returns :
    (IsFor(i) /\ results[i].triggered) =>
      /\ KeyOf(i) \in DOMAIN obs_run
      /\ obs_run[KeyOf(i)] <= evals[i].at - WindowOf(i)
      /\ KeyOf(i) \in DOMAIN last_break =>
           /\ last_break[KeyOf(i)].at < evals[i].at - WindowOf(i)
           /\ last_break[KeyOf(i)].at < obs_run[KeyOf(i)]

\* A For rule with a positive window has triggered on the third sample in a
\* row recorded for its process.
C1_Witness ==
  \E i \in Returns :
    /\ IsFor(i) /\ results[i].triggered /\ WindowOf(i) > 0
    /\ call.op = "evaluate"
    /\ Len(sample_history[results[i].pid]) >= 3

\* C2: a For-windowed rule whose condition is true and whose key has no timer
\* reports not-triggered and leaves a timer started at the current instant,
\* whatever its window.
C2_FirstTrueNeverTriggers ==
  \A i \in Returns :
    (IsFor(i) /\ evals[i].met /\ evals[i].prior = {}) =>
      /\ ~results[i].triggered
      /\ KeyOf(i) \in DOMAIN trigger_start_times
      /\ trigger_start_times[KeyOf(i)] \in evals[i].now

\* C3: a For-windowed rule whose condition is false reports not-triggered and
\* leaves no timer for its key; and a true observation that begins a run (the
\* one before it was false) does not trigger when the window is positive.
C3_FalseResetsTimer ==
  \A i \in Returns :
    IsFor(i) =>
      /\ ~evals[i].met =>
           /\ ~results[i].triggered
           /\ KeyOf(i) \notin DOMAIN trigger_start_times
      /\ (evals[i].met /\ WindowOf(i) > 0 /\ KeyOf(i) \in DOMAIN obs_run
            /\ obs_run[KeyOf(i)] = evals[i].at) => ~results[i].triggered

\* True, false, true: the third observation comes a full window or more after
\* the first and does not trigger.
C3_Witness ==
  \E i \in Returns :
    /\ IsFor(i) /\ evals[i].met /\ WindowOf(i) > 0 /\ ~results[i].triggered
    /\ KeyOf(i) \in DOMAIN last_break
    /\ last_break[KeyOf(i)].by = "false"
    /\ \E first \in last_break[KeyOf(i)].run : evals[i].at - first >= WindowOf(i)
    /\ obs_run[KeyOf(i)] = evals[i].at

\* C4: a For-windowed rule whose condition is true and whose key has a timer
\* leaves the timer's start unchanged and triggers exactly when now - start >=
\* window; and every timer stored equals the first true observation of the
\* run of its key that is under way.
C4_TimerKeptWhileTrue ==
  /\ \A i \in Returns :
       (IsFor(i) /\ evals[i].met /\ evals[i].prior # {}) =>
         /\ KeyOf(i) \in DOMAIN trigger_start_times
         /\ trigger_start_times[KeyOf(i)] \in evals[i].prior
         /\ results[i].triggered <=>
              (evals[i].at - trigger_start_times[KeyOf(i)] >= WindowOf(i))
  /\ DOMAIN trigger_start_times = DOMAIN obs_run
  /\ \A key \in DOMAIN trigger_start_times : trigger_start_times[key] = obs_run[key]

\* A timer was found, time had passed since its start, and the window had not.
C4_Witness ==
  \E i \in Returns :
    /\ IsFor(i) /\ evals[i].met /\ ~results[i].triggered
    /\ \E start \in evals[i].prior : evals[i].at > start

\* The queue of the process the latest call was about, as its rules saw it.
QueueSeen == HistoryOf(sample_history, call.pid)

\* The sample the latest call was about.
SampleSeen == CHOOSE sample \in call.sample : TRUE

\* C5: an Increasing or Decreasing rule evaluated while the queue of its PID
\* holds fewer than 2 entries reports not-triggered, whatever its threshold.
C5_DeltaNeedsTwoEntries ==
  \A i \in Returns :
    (IsDelta(i) /\ Len(QueueSeen) < 2) => ~results[i].triggered

\* A delta rule whose threshold is zero or negative met a queue of one entry,
\* after an earlier sample of the process had been recorded and dropped.
C5_Witness ==
  \E i \in Returns :
    /\ IsDelta(i) /\ results[i].threshold <= 0
    /\ Len(QueueSeen) = 1 /\ clock >= 2
    /\ ~results[i].triggered

\* The change of the rule's metric from the queue entry at index j to the
\* sample evaluated: the rise for Increasing, the fall for Decreasing.
DeltaFrom(i, j) ==
  LET old == ExtractMetricValue(results[i].rule, QueueSeen[j].sample)
  IN  IF evals[i].kind = "Increasing" THEN results[i].current_value - old
      ELSE old - results[i].current_value

\* The index of the oldest entry of the queue captured at or after cutoff (0 if none).
OldestSince(cutoff) ==
  LET hits == { j \in 1..Len(QueueSeen) : QueueSeen[j].timestamp >= cutoff }
  IN  IF hits = {} THEN 0 ELSE CHOOSE j \in hits : \A k \in hits : j <= k

CutoffOf(i) ==
  IF WindowOf(i) <= evals[i].at THEN evals[i].at - WindowOf(i)
  ELSE CHOOSE later \in evals[i].cutoff : TRUE

C7_OneResultPerRule ==
  call.op = "evaluate" =>
    /\ Len(results) = Len(call.rules)
    /\ \A i \in Returns :
         /\ results[i].rule = call.rules[i]
         /\ results[i].pid = SampleSeen.pid

\* evaluate returned three results for three different rules.
C7_Witness ==
  /\ call.op = "evaluate"
  /\ Len(results) = 3
  /\ Cardinality({ results[i].rule : i \in Returns }) = 3

\* What a comparison operator means, on the integers of the model.
Holds(op, value, threshold) ==
  CASE op = "Greater"   -> value > threshold
    [] op = "GreaterEq" -> value >= threshold
    [] op = "Less"      -> value < threshold
    [] op = "LessEq"    -> value <= threshold
    [] op = "Equals"    -> value = threshold
    [] op = "NotEquals" -> value # threshold

\* The threshold of a rule in the units of its metric.
InMetricUnits(rule) ==
  IF rule.metric \in {"Rss", "Virtual", "ReadBytes", "WriteBytes"} /\ rule.unit = "Kb"
  THEN rule.threshold * 1024
  ELSE rule.threshold

\* The latest call evaluated rules without a window only.
OnlySimple(c) ==
  /\ c.op \in {"evaluate", "evaluate_rule"}
  /\ \A i \in 1..Len(c.rules) : c.rules[i].window = {}

\* C8: a rule without a window triggers exactly when its operator holds between
\* the metric of the current sample and the normalized threshold, whatever the
\* history and the timers; and evaluating it adds and removes no timer.
C8_SimpleRule ==
  /\ [](\A i \in Returns :
         results[i].rule.window = {} =>
           /\ results[i].current_value = ExtractMetricValue(results[i].rule, SampleSeen)
           /\ results[i].triggered <=>
                Holds(results[i].rule.operator, results[i].current_value,
                      InMetricUnits(results[i].rule)))
  /\ [][OnlySimple(call') => trigger_start_times' = trigger_start_times]_vars

\* A rule without a window triggered while a timer was running and the queue
\* of the process held earlier samples, and its threshold carries a unit.
C8_Witness ==
  \E i \in Returns :
    /\ results[i].rule.window = {} /\ results[i].triggered
    /\ results[i].rule.unit = "Kb"
    /\ trigger_start_times # EmptyMap
    /\ Len(QueueSeen) >= 2

\* C9: clear_history(pid) leaves no queue and no timer of that PID, and leaves
\* the queues and timers of every other PID and max_history_duration as they
\* were; a For rule of that PID whose run of true observations it ended triggers
\* only a full window after the first true observation that follows the clear.
C9_ClearHistory ==
  /\ [][call'.op = "clear_history" =>
          /\ call'.pid \notin DOMAIN sample_history'
          /\ \A k \in DOMAIN trigger_start_times' : k[1] # call'.pid
          /\ \A pid \in Pids \ {call'.pid} :
               /\ pid \in DOMAIN sample_history' <=> pid \in DOMAIN sample_history
               /\ HistoryOf(sample_history', pid) = HistoryOf(sample_history, pid)
          /\ \A k \in DOMAIN trigger_start_times :
               k[1] # call'.pid =>
                 /\ k \in DOMAIN trigger_start_times'
                 /\ trigger_start_times'[k] = trigger_start_times[k]
          /\ DOMAIN trigger_start_times' \subseteq DOMAIN trigger_start_times
          /\ max_history_duration' = max_history_duration]_vars
  /\ [](\A i \in Returns :
         (IsFor(i) /\ evals[i].met /\ KeyOf(i) \in DOMAIN last_break
            /\ last_break[KeyOf(i)].by = "clear") =>
           /\ obs_run[KeyOf(i)] > last_break[KeyOf(i)].at
           /\ results[i].triggered <=>
                (evals[i].at - obs_run[KeyOf(i)] >= WindowOf(i)))

\* A For rule holds but has not triggered although a full window has passed
\* since the run that clear_history ended began, while the engine keeps the
\* queue of another process.
C9_Witness ==
  \E i \in Returns :
    /\ IsFor(i) /\ evals[i].met /\ WindowOf(i) > 0 /\ ~results[i].triggered
    /\ KeyOf(i) \in DOMAIN last_break
    /\ last_break[KeyOf(i)].by = "clear"
    /\ \E first \in last_break[KeyOf(i)].run : evals[i].at - first >= WindowOf(i)
    /\ \E pid \in DOMAIN sample_history : pid # results[i].pid

\* The timers of a process in a map of timers.
TimersOf(timers, pid) == Restrict(timers, { k \in DOMAIN timers : k[1] = pid })

\* C10: of two engines given the same calls for PidA, one of them given calls
\* for PidB as well, the queue and the timers of PidA are the same in both
\* after every call, and every evaluate for PidA returns the same in both.
C10_PidsDoNotInterfere ==
  /\ PidA \in DOMAIN sample_history <=> PidA \in DOMAIN twin.sample_history
  /\ HistoryOf(sample_history, PidA) = HistoryOf(twin.sample_history, PidA)
  /\ TimersOf(trigger_start_times, PidA) = TimersOf(twin.trigger_start_times, PidA)
  /\ (call.op = "evaluate" /\ call.pid = PidA) => results = twin.results

\* Both engines report a For rule of PidA triggered, the first engine having
\* sampled PidB and cleared a running timer of PidB in the meantime.
C10_Witness ==
  /\ call.op = "evaluate" /\ call.pid = PidA
  /\ \E i \in Returns : IsFor(i) /\ results[i].triggered /\ twin.results[i].triggered
  /\ \E k \in DOMAIN last_break : k[1] = PidB /\ last_break[k].by = "clear"

\* The instant evaluate stamped on the sample it recorded: the capture time of
\* the back entry of the queue.
StampOf(queue) == queue[Len(queue)].timestamp

\* Every entry of a queue was captured no longer than duration before now.
WithinAge(queue, now, duration) ==
  \A j \in 1..Len(queue) : queue[j].timestamp >= now - duration

\* C11: when evaluate evaluates its rules and when it returns, every entry of
\* the queue of the sample's PID was captured at or after now -
\* max_history_duration, now being the instant evaluate stamped on the sample;
\* the entries have distinct capture times, so a windowed rule scans no more
\* entries than samples were recorded in that span.
C11_HistoryWithinAge ==
  call.op = "evaluate" =>
    /\ call.pid \in DOMAIN sample_history
    /\ QueueSeen # <<>>
    /\ QueueSeen[Len(QueueSeen)].sample = SampleSeen
    /\ WithinAge(QueueSeen, StampOf(QueueSeen), max_history_duration)
    /\ \A j \in 1..Len(QueueSeen) - 1 : QueueSeen[j].timestamp < QueueSeen[j + 1].timestamp
    /\ Len(QueueSeen) <= max_history_duration + 1
    /\ \A i \in Returns : IsDelta(i) => evals[i].hist_len = Len(QueueSeen)

\* A For rule triggered on a timer older than max_history_duration: the sample
\* recorded when the timer started has been pruned from the queue.
C11_Witness ==
  \E i \in Returns :
    /\ call.op = "evaluate"
    /\ IsFor(i) /\ results[i].triggered
    /\ WindowOf(i) > max_history_duration
    /\ Len(QueueSeen) = 1

\* C12: set_max_history_duration(d) changes max_history_duration and no queue
\* and no timer; evaluate prunes the queue of its own PID to the duration in
\* force and leaves the queue of every other PID as it was.
C12_SetMaxHistoryDuration ==
  /\ [][call'.op = "set_max_history_duration" =>
          /\ sample_history' = sample_history
          /\ trigger_start_times' = trigger_start_times]_vars
  /\ [][call'.op = "evaluate" =>
          /\ WithinAge(sample_history'[call'.pid], StampOf(sample_history'[call'.pid]),
                       max_history_duration)
          /\ \A pid \in Pids \ {call'.pid} :
               /\ pid \in DOMAIN sample_history' <=> pid \in DOMAIN sample_history
               /\ HistoryOf(sample_history', pid) = HistoryOf(sample_history, pid)]_vars

\* After the duration was lowered, the evaluate of one process pruned its
\* queue, while the queue of the other process keeps an entry older than the
\* duration.
C12_Witness ==
  /\ call.op = "evaluate"
  /\ Len(QueueSeen) = 1
  /\ \E pid \in DOMAIN sample_history :
       /\ pid # call.pid
       /\ ~WithinAge(sample_history[pid], clock, max_history_duration)
       /\ Len(sample_history[pid]) >= 2

\* What evaluate_rule can return for a rule and a sample in the current state,
\* when called at the next clock reading.
Outcomes(sample, rule) ==
  EvaluateRule(Thread(trigger_start_times, clock + 1), sample_history, sample, rule)

\* C13: in every reachable state, evaluate_rule returns one result, triggered
\* or not, for every rule value and every sample; evaluate returns one per
\* rule; a rule with a window and no window_condition is evaluated as For, and
\* a rule without a window as a simple rule whatever its window_condition.
C13_EvaluationIsTotal ==
  /\ \A sample \in SamplesOfOne, rule \in AnyRules :
       /\ Outcomes(sample, rule) # {}
       /\ \A st \in Outcomes(sample, rule) :
            /\ Len(st.res) = 1
            /\ st.res[1].triggered \in BOOLEAN
            /\ st.res[1].rule = rule
  /\ call.op \in {"evaluate", "evaluate_rule"} => Len(results) = Len(call.rules)
  /\ \A i \in Returns :
       /\ results[i].rule.window = {} => evals[i].kind = "Simple"
       /\ (results[i].rule.window # {} /\ results[i].rule.window_condition = {}) =>
            evals[i].kind = "For"
       /\ (results[i].rule.window # {} /\ results[i].rule.window_condition # {}) =>
            {evals[i].kind} = results[i].rule.window_condition

\* A rule with a window and no window_condition has triggered as a For rule,
\* its threshold negative.
C13_Witness ==
  \E i \in Returns :
    /\ results[i].rule.window = {2} /\ results[i].rule.window_condition = {}
    /\ results[i].rule.threshold < 0
    /\ evals[i].kind = "For" /\ results[i].triggered

\* How many bytes one of a unit is.
BytesPer(unit) ==
  CASE unit \in {"None", "Percent", "Bytes"} -> 1
    [] unit = "Kb" -> 1024
    [] unit = "Mb" -> 1048576
    [] unit = "Gb" -> 1073741824

\* C20: the threshold of every AlertResult is the rule's threshold as written
\* for Cpu, Threads and Fd rules whatever the unit, and the rule's threshold
\* times the bytes of its unit for Rss, Virtual, ReadBytes and WriteBytes rules.
C20_NormalizedThreshold ==
  \A i \in Returns :
    /\ results[i].rule.metric \in {"Cpu", "Threads", "Fd"} =>
         results[i].threshold = results[i].rule.threshold
    /\ results[i].rule.metric \in {"Rss", "Virtual", "ReadBytes", "WriteBytes"} =>
         results[i].threshold = results[i].rule.threshold * BytesPer(results[i].rule.unit)

\* A result for a Threads rule written in Gb carries the threshold as written.
C20_Witness ==
  \E i \in Returns :
    /\ results[i].rule.metric = "Threads" /\ results[i].rule.unit = "Gb"
    /\ results[i].threshold = 1
    /\ results[i].triggered

\* A parse has returned a rule.
ParsedRule == parsed # <<>> /\ parsed.result.ok

\* A parse has returned an error.
ParsedError == parsed # <<>> /\ ~parsed.result.ok

\* The text holds a window keyword.
HasWindowClause(text) ==
  \E i \in 1..Len(text), k \in 1..Len(ConditionTokens) : StartsWith(text, i, ConditionTokens[k])

\* C14: a rule returned by parse has window and window_condition both present
\* or both absent, and present exactly when the expression has a window clause.
C14_WindowWithCondition ==
  ParsedRule =>
    /\ parsed.result.rule.window = {} <=> parsed.result.rule.window_condition = {}
    /\ parsed.result.rule.window # {} <=> HasWindowClause(parsed.expression)

\* parse returned a rule whose window clause lasts less than a second.
C14_Witness ==
  /\ ParsedRule
  /\ parsed.result.rule.window = {0}
  /\ parsed.result.rule.window_condition = {"For"}

\* The text carries a unit suffix: what follows its first number, spaces
\* skipped, begins one of %, GB, MB, KB, B.
HasUnitSuffix(text) ==
  \E i \in 1..Len(text) :
    /\ Char(text, i) \in NumberChars
    /\ \A j \in 1..(i - 1) : Char(text, j) \notin NumberChars
    /\ LET next == SkipWhile(text, SkipWhile(text, i, NumberChars), Spaces)
       IN  next <= Len(text) /\ ToLowercase(Char(text, next)) \in {"%", "g", "m", "k", "b"}

\* The default unit of a metric.
DefaultUnit(metric) ==
  CASE metric = "Cpu" -> "Percent"
    [] metric \in {"Rss", "Virtual", "ReadBytes", "WriteBytes"} -> "Bytes"
    [] metric \in {"Threads", "Fd"} -> "None"

\* C15: a rule parsed from an expression without a unit suffix has the default
\* unit of its metric.
C15_DefaultUnit ==
  (ParsedRule /\ ~HasUnitSuffix(parsed.expression)) =>
    parsed.result.rule.unit = DefaultUnit(parsed.result.rule.metric)

\* parse returned a windowed Fd rule, written with an alias and no unit.
C15_Witness ==
  /\ ParsedRule /\ ~HasUnitSuffix(parsed.expression)
  /\ parsed.result.rule.metric = "Fd" /\ parsed.result.rule.unit = "None"
  /\ parsed.result.rule.window # {}

\* C16: a parsed Cpu rule has unit Percent and a parsed Threads or Fd rule has
\* unit None, whatever unit suffix the expression carries.
C16_UnitFollowsMetric ==
  ParsedRule =>
    /\ parsed.result.rule.metric = "Cpu" => parsed.result.rule.unit = "Percent"
    /\ parsed.result.rule.metric \in {"Threads", "Fd"} => parsed.result.rule.unit = "None"

\* The operator each token of the grammar stands for.
OperatorFor(token) ==
  CASE token = ">"             -> "Greater"
    [] token = ">="            -> "GreaterEq"
    [] token = "<"             -> "Less"
    [] token = "<="            -> "LessEq"
    [] token \in {"==", "="}   -> "Equals"
    [] token \in {"!=", "<>"}  -> "NotEquals"

\* C17: parse accepts each of the eight operator tokens and maps it to its
\* operator.
C17_EveryOperatorToken ==
  \A token \in OperatorWords :
    (parsed # <<>> /\ parsed.expression = "cpu" \o token \o "80") =>
      /\ parsed.result.ok
      /\ parsed.result.rule.operator = OperatorFor(token)

\* The text between the first and the last character that is not a space.
Core(text) ==
  LET inked == { i \in 1..Len(text) : Char(text, i) \notin Spaces }
  IN  IF inked = {} THEN ""
      ELSE SubSeq(text, CHOOSE i \in inked : \A j \in inked : i <= j,
                        CHOOSE i \in inked : \A j \in inked : i >= j)

\* The text writes a decimal number: digits with at most one dot.
WellFormedNumber(text) ==
  /\ Cardinality({ i \in 1..Len(text) : Char(text, i) = "." }) <= 1
  /\ \E i \in 1..Len(text) : Char(text, i) \in CharsOf(Digits)

\* The error parse owes to text that matches the grammar with groups g: that
\* of the first stage to fail, in the order metric, operator, threshold, window
\* keyword, duration; nothing if none fails.
ErrorOwed(g) ==
  IF MetricTypeParse(g.metric) = {} THEN {<<"UnknownMetric", g.metric>>}
  ELSE IF ComparisonOperatorParse(g.operator) = {} THEN {<<"UnknownOperator", g.operator>>}
  ELSE IF ~WellFormedNumber(g.threshold) THEN {<<"InvalidThreshold", g.threshold>>}
  ELSE IF g.condition # {} /\ \A c \in g.condition : WindowConditionParse(c) = {}
       THEN { <<"UnknownCondition", c>> : c \in g.condition }
  ELSE IF g.duration_value # {} /\ \A d \in g.duration_value : ~WellFormedNumber(d)
       THEN { <<"InvalidDuration", d>> : d \in g.duration_value }
  ELSE {}

\* C18: parse of empty or blank input returns EmptyExpression; of other input
\* that does not match the grammar, InvalidExpression with the trimmed text; of
\* input that matches, the error of the first stage that fails (UnknownMetric
\* before all others), and a rule only when no stage fails.
C18_ErrorClasses ==
  parsed # <<>> =>
    LET text == Core(parsed.expression)
        g    == Captures(text)
    IN  IF text = ""
        THEN parsed.result = [ok |-> FALSE, error |-> "EmptyExpression", text |-> ""]
        ELSE IF ~g.matched
        THEN parsed.result = [ok |-> FALSE, error |-> "InvalidExpression", text |-> text]
        ELSE IF ErrorOwed(g) # {}
        THEN /\ ~parsed.result.ok
             /\ <<parsed.result.error, parsed.result.text>> \in ErrorOwed(g)
        ELSE parsed.result.ok /\ parsed.result.rule.expression = text

\* parse returned UnknownMetric for an expression whose threshold and duration
\* are ill-formed as well.
C18_Witness ==
  /\ ParsedError
  /\ parsed.result.error = "UnknownMetric"
  /\ LET g == Captures(Core(parsed.expression))
     IN  /\ ~WellFormedNumber(g.threshold)
         /\ \E d \in g.duration_value : ~WellFormedNumber(d)

\* C19: parse returns a rule for an expression whose threshold is written with
\* a leading minus sign, and the rule's threshold is the negative value.
C19_NegativeThreshold ==
  \A metric \in {"cpu", "mem"}, token \in {"<", ">="} :
    (parsed # <<>> /\ parsed.expression = metric \o token \o "-1") =>
      /\ parsed.result.ok
      /\ parsed.result.rule.threshold = -1

\* C21: clear_all_history leaves the sample-history map and the trigger-timer
\* map empty and max_history_duration as it was, whatever the state before it.
C21_ClearAllHistory ==
  [][call'.op = "clear_all_history" =>
       /\ sample_history' = EmptyMap
       /\ trigger_start_times' = EmptyMap
       /\ max_history_duration' = max_history_duration]_vars

\* clear_all_history has just ended running timers of two processes, and both
\* maps are empty.
C21_Witness ==
  /\ call.op = "clear_all_history"
  /\ sample_history = EmptyMap /\ trigger_start_times = EmptyMap
  /\ \A pid \in Pids :
       \E k \in DOMAIN last_break :
         /\ k[1] = pid
         /\ last_break[k].by = "clear" /\ last_break[k].at = clock
         /\ last_break[k].run # {}

\* C22: evaluate appends the sample to the back of the queue of its PID and
\* prunes the front once, before its first rule, however many rules it has:
\* the queue it leaves is a suffix of the queue it found followed by the one
\* new entry, and every rule of the call that reads the queue ran at or after
\* the entry's capture time and found that queue, the sample at its back.
C22_RecordedOnceBeforeRules ==
  [][call'.op = "evaluate" =>
       LET before == HistoryOf(sample_history, call'.pid)
           after  == HistoryOf(sample_history', call'.pid)
           back   == after[Len(after)]
       IN  /\ after # <<>>
           /\ back.sample \in call'.sample
           /\ \A j \in 1..Len(before) : before[j].timestamp < back.timestamp
           /\ \E kept \in 0..Len(before) :
                after = SubSeq(before, Len(before) - kept + 1, Len(before)) \o <<back>>
           /\ \A i \in 1..Len(results') :
                /\ evals'[i].at >= back.timestamp
                /\ evals'[i].kind \in {"Increasing", "Decreasing"} =>
                     /\ evals'[i].hist_len = Len(after)
                     /\ evals'[i].baseline \in 0..Len(after)
                     /\ evals'[i].baseline = Len(after) =>
                          ( results'[i].triggered <=> (0 >= results'[i].threshold) )]_vars

\* Both delta rules of one evaluate found the same queue of three entries,
\* and the first took the sample under evaluation for its baseline.
C22_Witness ==
  /\ call.op = "evaluate" /\ Len(results) = 2
  /\ \A i \in Returns : IsDelta(i) /\ evals[i].hist_len = 3
  /\ Len(QueueSeen) = 3
  /\ evals[1].baseline = 3

\* The entries of the queue captured at or after instant t (t may precede the
\* clock's origin).
CapturedSince(t) == { j \in 1..Len(QueueSeen) : QueueSeen[j].timestamp >= t }

\* C23: the baseline of an Increasing or Decreasing evaluation is the front
\* entry of the queue when no retained entry was captured at or after now -
\* window or now - window is not representable, and otherwise the oldest
\* retained entry captured at or after now - window.
C23_BaselineFrontOrOldest ==
  \A i \in Returns :
    (IsDelta(i) /\ evals[i].baseline # 0) =>
      LET hits == CapturedSince(evals[i].at - WindowOf(i))
      IN  /\ (hits = {} \/ WindowOf(i) > evals[i].at) =>
               /\ evals[i].baseline = 1
               /\ evals[i].baseline # Len(QueueSeen)
          /\ hits # {} => \A j \in hits : evals[i].baseline <= j

\* C24: add_to_history removes an entry only if its age exceeds
\* max_history_duration: every entry of the PID no older than
\* max_history_duration when the sample is recorded is still in the queue after
\* the call, and so is the entry just appended.
C24_PrunesOnlyOlder ==
  [][call'.op = "evaluate" =>
       LET before == HistoryOf(sample_history, call'.pid)
           after  == HistoryOf(sample_history', call'.pid)
           back   == after[Len(after)]
       IN  /\ after # <<>>
           /\ back.sample \in call'.sample
           /\ \A j \in 1..Len(before) :
                back.timestamp - before[j].timestamp <= max_history_duration =>
                  \E k \in 1..(Len(after) - 1) : after[k] = before[j]]_vars

\* The seconds in one of a duration unit of the grammar.
SecondsPer(unit) ==
  CASE ToLowercase(unit) = "s" -> 1
    [] ToLowercase(unit) = "m" -> 60
    [] ToLowercase(unit) = "h" -> 3600

\* C25: the window of a parsed rule is the decimal value written in its window
\* clause times the seconds of its unit, fractional values included.
C25_WindowAsWritten ==
  ParsedRule =>
    \A seconds \in parsed.result.rule.window :
      \A text \in Captures(Core(parsed.expression)).duration_value,
         unit \in Captures(Core(parsed.expression)).duration_unit :
        \A value \in ParseFloat(text) :
          seconds * value.den = value.num * SecondsPer(unit)

\* C26: the queue and the timers of a PID change only in an evaluate or
\* evaluate_rule call for that PID (the queue in evaluate only), in
\* clear_history of that PID and in clear_all_history; set_max_history_duration
\* and the calls for other PIDs, at whatever time, leave them as they are.
C26_OnlyOwnCallsModify ==
  [][\A pid \in Pids :
       /\ ( \/ HistoryOf(sample_history', pid) # HistoryOf(sample_history, pid)
            \/ (pid \in DOMAIN sample_history') # (pid \in DOMAIN sample_history) ) =>
            \/ call'.op = "evaluate" /\ call'.pid = pid
            \/ call'.op = "clear_history" /\ call'.pid = pid
            \/ call'.op = "clear_all_history"
       /\ TimersOf(trigger_start_times', pid) # TimersOf(trigger_start_times, pid) =>
            \/ call'.op \in {"evaluate", "evaluate_rule"} /\ call'.pid = pid
            \/ call'.op = "clear_history" /\ call'.pid = pid
            \/ call'.op = "clear_all_history"]_vars

\* An evaluate for one process has returned while the engine holds, for
\* another process, a queue entry and a timer older than max_history_duration.
C26_Witness ==
  /\ call.op = "evaluate"
  /\ \E pid \in DOMAIN sample_history :
       /\ pid # call.pid
       /\ clock - sample_history[pid][1].timestamp > max_history_duration
       /\ \E k \in DOMAIN trigger_start_times :
            k[1] = pid /\ clock - trigger_start_times[k] > max_history_duration

\* The Increasing and Decreasing rules whose operator is varied.
DeltaRules == {RInc, RDec, RInc0, RDecNeg}

\* What evaluate_rule can report for a rule and a sample in the current state:
\* the clock readings it took, the cutoff it used, and triggered or not.
Verdicts(sample, rule) ==
  { <<st.seen[1].now, st.seen[1].cutoff, st.res[1].triggered>> :
      st \in Outcomes(sample, rule) }

\* C27: in every reachable state, an Increasing or Decreasing rule and the
\* same rule with any other comparison operator report the same triggered
\* value for the same sample and clock readings, and evaluating either leaves
\* the timers as they are.
C27_DeltaIgnoresOperator ==
  \A sample \in SamplesOfOne, rule \in DeltaRules, op \in ComparisonOperator :
    /\ Verdicts(sample, rule) = Verdicts(sample, [rule EXCEPT !.operator = op])
    /\ \A st \in Outcomes(sample, [rule EXCEPT !.operator = op]) :
         st.timers = trigger_start_times

\* From a state with three queue entries and a running timer, a delta rule
\* triggers on a sample for which its operator holds and the opposite operator
\* does not.
C27_Witness ==
  /\ Len(HistoryOf(sample_history, 1)) = 3
  /\ trigger_start_times # EmptyMap
  /\ \E sample \in SamplesOfOne, rule \in DeltaRules :
       /\ RuleEvaluate(rule, sample)
       /\ ~RuleEvaluate([rule EXCEPT !.operator = "LessEq"], sample)
       /\ \E v \in Verdicts(sample, rule) : v[3]

\* C28: evaluate_rule leaves the sample-history map as it is; so the PID whose
\* samples reach the engine through evaluate_rule only has no queue and its
\* Increasing and Decreasing rules never trigger, while its For rules remove
\* their timer on a false observation, create it on the first true one and
\* keep it, triggering once the window has passed, on the next.
C28_EvaluateRuleKeepsHistory ==
  /\ [][call'.op = "evaluate_rule" => sample_history' = sample_history]_vars
  /\ [](PidA \notin DOMAIN sample_history)
  /\ [](\A i \in Returns :
         (call.op = "evaluate_rule" /\ call.pid = PidA) =>
           /\ IsDelta(i) => ~results[i].triggered
           /\ (IsFor(i) /\ ~evals[i].met) =>
                /\ ~results[i].triggered
                /\ KeyOf(i) \notin DOMAIN trigger_start_times
           /\ (IsFor(i) /\ evals[i].met) => KeyOf(i) \in DOMAIN trigger_start_times
           /\ (IsFor(i) /\ evals[i].met /\ evals[i].prior = {}) =>
                trigger_start_times[KeyOf(i)] \in evals[i].now
           /\ (IsFor(i) /\ evals[i].met /\ evals[i].prior # {}) =>
                /\ trigger_start_times[KeyOf(i)] \in evals[i].prior
                /\ results[i].triggered <=>
                     (evals[i].at - trigger_start_times[KeyOf(i)] >= WindowOf(i)))

\* evaluate_rule reported not-triggered for a delta rule of PidA whose
\* threshold is not positive, PidA having no queue and a timer started
\* earlier, while the engine holds a queue for PidB.
C28_Witness ==
  /\ call.op = "evaluate_rule" /\ call.pid = PidA
  /\ \E i \in Returns : IsDelta(i) /\ results[i].threshold <= 0 /\ ~results[i].triggered
  /\ PidA \notin DOMAIN sample_history
  /\ \E k \in DOMAIN trigger_start_times : k[1] = PidA /\ trigger_start_times[k] < clock
  /\ HistoryOf(sample_history, PidB) # <<>>

\* The latest call evaluated the For rule of key as triggered at instant t.
ForFired(key, t) ==
  \E i \in Returns :
    IsFor(i) /\ KeyOf(i) = key /\ results[i].triggered /\ evals[i].at = t

\* The latest call found the condition of the For rule of key true and
\* reported it not triggered.
ForHeldBack(key) ==
  \E i \in Returns :
    IsFor(i) /\ KeyOf(i) = key /\ evals[i].met /\ ~results[i].triggered

\* A false observation or a clear of key has happened at instant t or later.
BrokenSince(key, t) == key \in DOMAIN last_break /\ last_break[key].at >= t

\* C29: once a For rule has reported triggered for a PID, no later evaluation
\* of it for that PID finds its condition true and reports not-triggered,
\* unless a false observation of it or a clear of the PID came in between;
\* neither set_max_history_duration nor the pruning of the queue does.
C29_TriggeredStays ==
  \A key \in { <<pid, RFor1.expression>> : pid \in Pids }, t \in 0..MaxTime :
    [](ForFired(key, t) => [](ForHeldBack(key) => BrokenSince(key, t)))

\* A For rule triggers on a run that began more than a window ago, its
\* window longer than max_history_duration and the sample that began the run
\* pruned from the queue.
C29_Witness ==
  \E i \in Returns :
    /\ call.op = "evaluate"
    /\ IsFor(i) /\ results[i].triggered /\ WindowOf(i) > max_history_duration
    /\ evals[i].at - obs_run[KeyOf(i)] > WindowOf(i)
    /\ QueueSeen[1].timestamp > obs_run[KeyOf(i)]

\* The current run of true observations of the For rule, for PidA, began at t.
RunBegun(rule, t) ==
  LET key == <<PidA, rule.expression>>
  IN  key \in DOMAIN obs_run /\ obs_run[key] = t

\* The latest call evaluated the For rule for PidA at or after t plus its
\* window and reported it triggered.
FiredFrom(rule, t) ==
  \E i \in Returns :
    /\ IsFor(i) /\ KeyOf(i) = <<PidA, rule.expression>>
    /\ results[i].triggered /\ evals[i].at >= t + UnwrapOr(rule.window, 0)

\* An evaluation of a For rule that finds its condition true a full window or
\* more after the first true observation of the run reports it triggered.
TriggersOnceDue ==
  \A i \in Returns :
    (IsFor(i) /\ evals[i].met /\ KeyOf(i) \in DOMAIN obs_run
       /\ evals[i].at >= obs_run[KeyOf(i)] + WindowOf(i)) => results[i].triggered

\* The clock has reached the last instant of the model before the loop could
\* evaluate the rule at or after t plus its window.
CutShort(rule, t) ==
  /\ clock = MaxTime
  /\ \A i \in Returns :
       (IsFor(i) /\ KeyOf(i) = <<PidA, rule.expression>>) =>
         evals[i].at < t + UnwrapOr(rule.window, 0)

\* C30: a For rule that the monitoring loop keeps evaluating for a PID, its
\* condition true at every evaluation from a first true observation on and the
\* PID never cleared, eventually reports triggered: the first evaluation at or
\* after the first true observation plus the window does.
C30_EventuallyTriggers ==
  /\ []TriggersOnceDue
  /\ \A rule \in {RFor1, RFor2}, t \in 0..MaxTime :
       [](RunBegun(rule, t) =>
            <>(\/ FiredFrom(rule, t)
               \/ BrokenSince(<<PidA, rule.expression>>, t)
               \/ CutShort(rule, t)))

\* The loop has evaluated a For rule more than once, the condition true every
\* time, and the evaluation that comes a window after the first reports it
\* triggered.
C30_Witness ==
  \E i \in Returns :
    /\ call.op = "evaluate" /\ call.rules \in AlertLists
    /\ IsFor(i) /\ results[i].triggered /\ WindowOf(i) = 2
    /\ evals[i].at = obs_run[KeyOf(i)] + WindowOf(i)
    /\ evals[i].prior # {}
    /\ KeyOf(i) \notin DOMAIN last_break

====
